---- MODULE Spec2Model ----
(***************************************************************************)
(* The InnoDB cluster labeler of the MySQL operator                        *)
(* (pkg/controllers/cluster/labeler/cluster_labeler.go): the snapshot      *)
(* store, the rate limited work queue, the worker loop and syncHandler,    *)
(* which relabels the Pods of the local instance's cluster as primary or   *)
(* secondary from an innodb.ClusterStatus.                                 *)
(***************************************************************************)
EXTENDS Integers, Sequences, FiniteSets, TLC

(***************************************************************************)
(* Label taxonomy.                                                         *)
(***************************************************************************)
LabelMySQLClusterRole == "v1.mysql.oracle.com/role"
MySQLClusterRolePrimary == "primary"
MySQLClusterRoleSecondary == "secondary"
\* constants.MySQLClusterLabel, the label the selectors match the cluster on
MySQLClusterLabel == "v1.mysql.oracle.com/cluster"
InstanceStatusOnline == "ONLINE"
\* any innodb.InstanceStatus other than ONLINE
InstanceStatusMissing == "(MISSING)"

(***************************************************************************)
(* The world the controller runs in: the local instance, and the Pods the  *)
(* Pod lister can return.  A, B and C are the members of the local         *)
(* instance's cluster; D belongs to another cluster of the namespace.      *)
(***************************************************************************)
LocalClusterName == "c1"
OtherClusterName == "c2"
LocalNamespace == "ns"
LocalName == "A"
LocalPort == 3306
OtherPort == LocalPort + 1
Pods == {"A", "B", "C", "D"}
PodCluster(p) == IF p = "D" THEN OtherClusterName ELSE LocalClusterName
PodNamespace(p) == LocalNamespace
Members == {p \in Pods : PodCluster(p) = LocalClusterName}

(***************************************************************************)
(* Bounds of the model.                                                    *)
(***************************************************************************)
\* EnqueueClusterStatus calls that store a snapshot, in total
MaxEnqueues == 2
\* failing calls of the Pod lister and of PatchPod, in total
MaxFailures == 1

(***************************************************************************)
(* Label sets (map[string]string) and their operations.                    *)
(***************************************************************************)
NoRole == ""
RoleValues == {NoRole, MySQLClusterRolePrimary, MySQLClusterRoleSecondary}

\* labels.Set.Get: the value of a key, "" when the key is absent
LabelGet(l, k) == IF k \in DOMAIN l THEN l[k] ELSE ""

\* the labels of a Pod of cluster c carrying role r ("" = no role key)
MakeLabels(c, r) ==
    IF r = NoRole
    THEN (MySQLClusterLabel :> c)
    ELSE (MySQLClusterLabel :> c) @@ (LabelMySQLClusterRole :> r)

LabelDelete(l, k) == [x \in DOMAIN l \ {k} |-> l[x]]
LabelSet(l, k, v) == (k :> v) @@ l

(***************************************************************************)
(* Selectors of the labeler package (selectors.go).                        *)
(***************************************************************************)
PrimarySelector(c, l) ==
    /\ MySQLClusterLabel \in DOMAIN l /\ l[MySQLClusterLabel] = c
    /\ LabelMySQLClusterRole \in DOMAIN l
    /\ l[LabelMySQLClusterRole] = MySQLClusterRolePrimary

SecondarySelector(c, l) ==
    /\ MySQLClusterLabel \in DOMAIN l /\ l[MySQLClusterLabel] = c
    /\ LabelMySQLClusterRole \in DOMAIN l
    /\ l[LabelMySQLClusterRole] = MySQLClusterRoleSecondary

NonPrimarySelector(c, l) ==
    /\ MySQLClusterLabel \in DOMAIN l /\ l[MySQLClusterLabel] = c
    /\ LabelGet(l, LabelMySQLClusterRole) # MySQLClusterRolePrimary

HasRoleSelector(c, l) ==
    /\ MySQLClusterLabel \in DOMAIN l /\ l[MySQLClusterLabel] = c
    /\ LabelMySQLClusterRole \in DOMAIN l

(***************************************************************************)
(* innodb.ClusterStatus and the objects handed to EnqueueClusterStatus.    *)
(***************************************************************************)
\* fmt.Sprintf("%s:%d", pod.Name, clc.localInstance.Port)
PodAddress(name) == <<name, LocalPort>>

Statuses == {InstanceStatusOnline, InstanceStatusMissing}

\* every topology over the addresses S: a map from some of them to a status
TopologiesOver(S) == UNION {[T -> Statuses] : T \in SUBSET S}

ClusterStatus(name, topology) ==
    [type |-> "*innodb.ClusterStatus", ClusterName |-> name, Topology |-> topology]

\* an object that is no *innodb.ClusterStatus
NotAStatus == [type |-> "*corev1.Pod"]

keyFunc_NoTypeCheck(obj) ==
    [key |-> IF "ClusterName" \in DOMAIN obj THEN obj.ClusterName ELSE "", err |-> FALSE]

keyFunc(obj) ==
    IF obj.type # "*innodb.ClusterStatus"
    THEN [key |-> "", err |-> TRUE]
    ELSE [key |-> obj.ClusterName, err |-> FALSE]

inCluster_AnyStatus(status, address) ==
    address \in DOMAIN status.Topology

inCluster(status, address) ==
    LET ok == address \in DOMAIN status.Topology
    IN  ok /\ status.Topology[address] = InstanceStatusOnline

(***************************************************************************)
(* The work queue (client-go workqueue.Type under the rate limiting        *)
(* queue): the order of the pending keys, the dirty set, the processing    *)
(* set and the shutdown flag.                                              *)
(***************************************************************************)
EmptyQueue ==
    [queue |-> <<>>, dirty |-> {}, processing |-> {}, shuttingDown |-> FALSE]

\* queue.Add: dropped on shutdown, coalesced when the key is already dirty,
\* and only marked dirty while the key is being processed
QueueAdd(q, item) ==
    IF q.shuttingDown \/ item \in q.dirty THEN q
    ELSE IF item \in q.processing THEN [q EXCEPT !.dirty = @ \cup {item}]
    ELSE [q EXCEPT !.dirty = @ \cup {item}, !.queue = Append(@, item)]

\* queue.Get on a non-empty queue: the head leaves dirty and enters processing
QueueGet(q) ==
    [q EXCEPT !.queue = Tail(@),
              !.dirty = @ \ {Head(q.queue)},
              !.processing = @ \cup {Head(q.queue)}]

\* queue.Done: the key leaves processing; a key marked dirty meanwhile is queued
QueueDone(q, item) ==
    IF item \in q.dirty
    THEN [q EXCEPT !.processing = @ \ {item}, !.queue = Append(@, item)]
    ELSE [q EXCEPT !.processing = @ \ {item}]

QueueShutDown(q) == [q EXCEPT !.shuttingDown = TRUE]

(***************************************************************************)
(* State.                                                                  *)
(***************************************************************************)
VARIABLES
    labels,       \* the labels of every Pod, as the Pod lister returns them
    store,        \* clc.store: cluster key -> the latest ClusterStatus
    wq,           \* clc.queue: queue, dirty, processing, shuttingDown
    waiting,      \* keys the delaying queue holds back after AddRateLimited
    numRequeues,  \* the rate limiter's failure count per key
    enqueuer,     \* the caller of EnqueueClusterStatus: its position and result
    w,            \* the worker goroutine: its position and syncHandler's locals
    run,          \* Run: its position, the context, the informer's sync flag
    pre,          \* history: the labels when the current pass started
    nmut,         \* history: calls of updateClusterRoleLabel in the current pass
    prev,         \* history: key, snapshot and result of the last finished pass
    enq,          \* history: successful EnqueueClusterStatus calls per key
    passes,       \* history: syncHandler passes started per key
    early,        \* history: enqueues per key before its first pass finished
    nfail         \* history: failed lister and PatchPod calls

vars == <<labels, store, wq, waiting, numRequeues, enqueuer, w, run,
          pre, nmut, prev, enq, passes, early, nfail>>

Keys == {LocalClusterName, OtherClusterName}
\* the keys keyFunc can return: a cluster name, or "" beside an error
AllKeys == Keys \cup {""}

NoStatus == [type |-> "nil"]

\* the role every Pod carries
RoleOf(p) == LabelGet(labels[p], LabelMySQLClusterRole)

\* a Pod object as the lister hands it out: a copy of its name and labels
PodObject(p) == [Name |-> p, Labels |-> labels[p]]

\* no call of EnqueueClusterStatus is under way and the last one returned nil
IdleEnqueuer == [pc |-> "idle", obj |-> NoStatus, key |-> "", err |-> FALSE]

IdleWorker(pc) ==
    [pc |-> pc, key |-> "", status |-> NoStatus, primaries |-> {},
     primaryLabeled |-> FALSE, pods |-> {}, err |-> "", cause |-> ""]

\* the labels of the Pods when Pod p carries role r[p]
Labeling(r) == [p \in Pods |-> MakeLabels(PodCluster(p), r[p])]

\* every labeling of the Pods
Labelings == {Labeling(r) : r \in [Pods -> RoleValues]}

\* the labelings the controller is started on where the interleavings of the
\* queue are explored: no role yet, the labels another primary left behind,
\* the labels of an earlier run of this controller, and two stale primaries
SomeLabelings ==
    { Labeling([A |-> "", B |-> "", C |-> "", D |-> "primary"]),
      Labeling([A |-> "", B |-> "primary", C |-> "secondary", D |-> "primary"]),
      Labeling([A |-> "primary", B |-> "secondary", C |-> "secondary", D |-> ""]),
      Labeling([A |-> "secondary", B |-> "primary", C |-> "primary", D |-> "secondary"]) }

InitCommon ==
    /\ store = <<>>
    /\ wq = EmptyQueue
    /\ waiting = {}
    /\ numRequeues = [k \in AllKeys |-> 0]
    /\ enqueuer = IdleEnqueuer
    /\ pre = labels
    /\ nmut = 0
    /\ prev = [key |-> "", status |-> NoStatus, ok |-> FALSE]
    /\ enq = [k \in AllKeys |-> 0]
    /\ passes = [k \in AllKeys |-> 0]
    /\ early = [k \in AllKeys |-> 0]
    /\ nfail = 0

\* NewClusterLabelerController has returned; Run has not been called
Init ==
    /\ labels \in SomeLabelings
    /\ w = IdleWorker("notstarted")
    /\ run = [pc |-> "notstarted", ctxDone |-> FALSE, synced |-> FALSE]
    /\ InitCommon

(***************************************************************************)
(* The label mutation.                                                     *)
(***************************************************************************)
updateClusterRoleLabel_EmptyValue(podLabels, val) ==
    LabelSet(podLabels, LabelMySQLClusterRole, val)

\* the copy updateClusterRoleLabel edits: the role key deleted or set
updateClusterRoleLabel(podLabels, val) ==
    IF val = ""
    THEN LabelDelete(podLabels, LabelMySQLClusterRole)
    ELSE LabelSet(podLabels, LabelMySQLClusterRole, val)

\* podControl.PatchPod(old, new): the difference of old and new, applied to
\* the labels cur the Pod has now; keys old and new agree on are left alone
PatchPod(cur, old, new) ==
    LET removed == DOMAIN old \ DOMAIN new
        changed == {k \in DOMAIN new : k \notin DOMAIN old \/ old[k] # new[k]}
    IN  [k \in (DOMAIN cur \ removed) \cup changed |->
            IF k \in changed THEN new[k] ELSE cur[k]]

\* the labels of all Pods after updateClusterRoleLabel(pod, val) succeeded
Relabeled(pod, val) ==
    [labels EXCEPT ![pod.Name] =
        PatchPod(labels[pod.Name], pod.Labels, updateClusterRoleLabel(pod.Labels, val))]

\* podLister.Pods(namespace).List(selector)
ListPrimaries ==
    {PodObject(p) : p \in {x \in Pods : /\ PodNamespace(x) = LocalNamespace
                                         /\ PrimarySelector(LocalClusterName, labels[x])}}

ListNonPrimaries_AnyCluster ==
    {PodObject(p) : p \in {x \in Pods :
        /\ PodNamespace(x) = LocalNamespace
        /\ LabelGet(labels[x], LabelMySQLClusterRole) # MySQLClusterRolePrimary}}

ListNonPrimaries ==
    {PodObject(p) : p \in {x \in Pods : /\ PodNamespace(x) = LocalNamespace
                                         /\ NonPrimarySelector(LocalClusterName, labels[x])}}

\* the EnqueueClusterStatus calls that stored a snapshot so far
Enqueued == enq[LocalClusterName] + enq[OtherClusterName] + enq[""]

\* a syncHandler pass for key k is in progress
InPass(k) == w.key = k /\ w.pc \in {"primaries", "list", "pods", "finish"}

\* the first pass for key k has run to its end
FirstProcessed(k) == passes[k] >= 2 \/ (passes[k] = 1 /\ ~InPass(k))

\* a call of the lister or of PatchPod may fail, MaxFailures times in all
MayFail == nfail < MaxFailures

\* the errors PatchPod returns: the Pod is gone from the API server (the
\* lister's cache still holds it), or the patch hit a conflict or a transient
\* failure; updateClusterRoleLabel hands either one to its caller
PatchErrors == {"NotFound", "Conflict"}

(***************************************************************************)
(* EnqueueClusterStatus: keyFunc, store.Add, then queue.Add.               *)
(***************************************************************************)
EnqueueClusterStatus_AddBeforeStore(obj) ==
    /\ enqueuer.pc = "idle"
    /\ LET k == keyFunc(obj)
       IN  IF k.err
           THEN /\ enqueuer' = [pc |-> "idle", obj |-> obj, key |-> "", err |-> TRUE]
                /\ UNCHANGED <<store, wq, enq, early>>
           ELSE /\ Enqueued < MaxEnqueues
                /\ wq' = QueueAdd(wq, k.key)
                /\ enq' = [enq EXCEPT ![k.key] = @ + 1]
                /\ early' = IF FirstProcessed(k.key) THEN early
                            ELSE [early EXCEPT ![k.key] = @ + 1]
                /\ enqueuer' = [pc |-> "add", obj |-> obj, key |-> k.key, err |-> FALSE]
                /\ UNCHANGED store
    /\ UNCHANGED <<labels, waiting, numRequeues, w, run, pre, nmut, prev,
                   passes, nfail>>

EnqueueClusterStatus(obj) ==
    /\ enqueuer.pc = "idle"
    /\ LET k == keyFunc(obj)
       IN  IF k.err
           THEN /\ enqueuer' = [pc |-> "idle", obj |-> obj, key |-> "", err |-> TRUE]
                /\ UNCHANGED <<store, enq, early>>
           ELSE /\ Enqueued < MaxEnqueues
                /\ store' = (k.key :> obj) @@ store
                /\ enq' = [enq EXCEPT ![k.key] = @ + 1]
                /\ early' = IF FirstProcessed(k.key) THEN early
                            ELSE [early EXCEPT ![k.key] = @ + 1]
                /\ enqueuer' = [pc |-> "add", obj |-> obj, key |-> k.key, err |-> FALSE]
    /\ UNCHANGED <<labels, wq, waiting, numRequeues, w, run, pre, nmut, prev,
                   passes, nfail>>

EnqueueAdd_NoAdd ==
    /\ enqueuer.pc = "add"
    /\ enqueuer' = IdleEnqueuer
    /\ UNCHANGED <<labels, store, wq, waiting, numRequeues, w, run, pre, nmut,
                   prev, enq, passes, early, nfail>>

\* line 226: clc.queue.Add(key), and the return
EnqueueAdd ==
    /\ enqueuer.pc = "add"
    /\ wq' = QueueAdd(wq, enqueuer.key)
    /\ enqueuer' = IdleEnqueuer
    /\ UNCHANGED <<labels, store, waiting, numRequeues, w, run, pre, nmut, prev,
                   enq, passes, early, nfail>>

(***************************************************************************)
(* processNextWorkItem and syncHandler, step by step.                      *)
(***************************************************************************)
\* line 184: queue.Get returns a key
WorkerGet ==
    /\ w.pc = "get"
    /\ wq.queue # <<>>
    /\ w' = [IdleWorker("sync") EXCEPT !.key = Head(wq.queue)]
    /\ wq' = QueueGet(wq)
    /\ UNCHANGED <<labels, store, waiting, numRequeues, enqueuer, run, pre, nmut,
                   prev, enq, passes, early, nfail>>

\* lines 184-187: queue.Get reports shutdown, runWorker returns
WorkerGetShutdown ==
    /\ w.pc = "get"
    /\ wq.queue = <<>>
    /\ wq.shuttingDown
    /\ w' = IdleWorker("until")
    /\ UNCHANGED <<labels, store, wq, waiting, numRequeues, enqueuer, run, pre,
                   nmut, prev, enq, passes, early, nfail>>

SyncStart_StaleSnapshot ==
    /\ w.pc = "sync"
    /\ passes' = [passes EXCEPT ![w.key] = @ + 1]
    /\ pre' = labels
    /\ nmut' = 0
    /\ IF w.key \notin DOMAIN store
       THEN w' = [w EXCEPT !.pc = "finish", !.err = ""]
       ELSE w' = [w EXCEPT !.pc = "primaries",
                           !.status = IF prev.key = w.key /\ prev.status # NoStatus
                                      THEN prev.status ELSE store[w.key],
                           !.primaries = ListPrimaries,
                           !.primaryLabeled = FALSE]
    /\ UNCHANGED <<labels, store, wq, waiting, numRequeues, enqueuer, run, prev, enq,
                   early, nfail>>

\* lines 95-112: the snapshot is read from the store, the primaries are listed
SyncStart ==
    /\ w.pc = "sync"
    /\ passes' = [passes EXCEPT ![w.key] = @ + 1]
    /\ pre' = labels
    /\ nmut' = 0
    /\ IF w.key \notin DOMAIN store
       THEN /\ w' = [w EXCEPT !.pc = "finish", !.err = ""]
            /\ UNCHANGED nfail
       ELSE \/ /\ w' = [w EXCEPT !.pc = "primaries", !.status = store[w.key],
                                 !.primaries = ListPrimaries,
                                 !.primaryLabeled = FALSE]
               /\ UNCHANGED nfail
            \/ /\ MayFail
               /\ w' = [w EXCEPT !.pc = "finish", !.status = store[w.key],
                                 !.err = "failed to list primaries"]
               /\ nfail' = nfail + 1
    /\ UNCHANGED <<labels, store, wq, waiting, numRequeues, enqueuer, run, prev, enq,
                   early>>

RelabelRole_AlwaysSecondary(status, name) == MySQLClusterRoleSecondary

RelabelRole_AlwaysClear(status, name) == ""

\* lines 123-131: the role a Pod wrongly labeled primary gets
RelabelRole(status, name) ==
    IF ~inCluster(status, PodAddress(name)) THEN "" ELSE MySQLClusterRoleSecondary

RelabelPrimary_SkipsNotFound ==
    /\ w.pc = "primaries"
    /\ \E pod \in w.primaries :
         IF pod.Name = LocalName
         THEN /\ w' = [w EXCEPT !.primaries = @ \ {pod}, !.primaryLabeled = TRUE]
              /\ UNCHANGED <<labels, nmut, nfail>>
         ELSE /\ nmut' = nmut + 1
              /\ \/ /\ labels' = Relabeled(pod, RelabelRole(w.status, pod.Name))
                    /\ w' = [w EXCEPT !.primaries = @ \ {pod}]
                    /\ UNCHANGED nfail
                 \/ /\ MayFail
                    /\ \/ w' = [w EXCEPT !.primaries = @ \ {pod}]
                       \/ w' = [w EXCEPT !.pc = "finish", !.err = "relabeling primary",
                                         !.cause = "Conflict"]
                    /\ nfail' = nfail + 1
                    /\ UNCHANGED labels
    /\ UNCHANGED <<store, wq, waiting, numRequeues, enqueuer, run, pre, prev, enq,
                   passes, early>>

\* lines 117-136: one iteration of the loop over the primaries
RelabelPrimary ==
    /\ w.pc = "primaries"
    /\ \E pod \in w.primaries :
         IF pod.Name = LocalName
         THEN /\ w' = [w EXCEPT !.primaries = @ \ {pod}, !.primaryLabeled = TRUE]
              /\ UNCHANGED <<labels, nmut, nfail>>
         ELSE /\ nmut' = nmut + 1
              /\ \/ /\ labels' = Relabeled(pod, RelabelRole(w.status, pod.Name))
                    /\ w' = [w EXCEPT !.primaries = @ \ {pod}]
                    /\ UNCHANGED nfail
                 \/ /\ MayFail
                    /\ \E c \in PatchErrors :
                         w' = [w EXCEPT !.pc = "finish", !.err = "relabeling primary",
                                        !.cause = c]
                    /\ nfail' = nfail + 1
                    /\ UNCHANGED labels
    /\ UNCHANGED <<store, wq, waiting, numRequeues, enqueuer, run, pre, prev, enq,
                   passes, early>>

LabelLocalPrimary_NeverLabels ==
    /\ w.pc = "primaries"
    /\ w.primaries = {}
    /\ w' = [w EXCEPT !.pc = "list"]
    /\ UNCHANGED <<labels, nmut, nfail, store, wq, waiting, numRequeues, enqueuer,
                   run, pre, prev, enq, passes, early>>

LabelLocalPrimary_First ==
    /\ w.pc = "primaries"
    /\ IF ~w.primaryLabeled /\ (\A pod \in w.primaries : pod.Name # LocalName)
       THEN /\ labels' = Relabeled(PodObject(LocalName), MySQLClusterRolePrimary)
            /\ nmut' = nmut + 1
            /\ w' = [w EXCEPT !.primaryLabeled = TRUE]
            /\ UNCHANGED nfail
       ELSE /\ w.primaries = {}
            /\ w' = [w EXCEPT !.pc = "list"]
            /\ UNCHANGED <<labels, nmut, nfail>>
    /\ UNCHANGED <<store, wq, waiting, numRequeues, enqueuer, run, pre, prev, enq,
                   passes, early>>

\* lines 138-150: the loop is over; the local instance is labeled primary
\* unless it was among the primaries
LabelLocalPrimary ==
    /\ w.pc = "primaries"
    /\ w.primaries = {}
    /\ IF w.primaryLabeled
       THEN /\ w' = [w EXCEPT !.pc = "list"]
            /\ UNCHANGED <<labels, nmut, nfail>>
       ELSE \/ /\ labels' = Relabeled(PodObject(LocalName), MySQLClusterRolePrimary)
               /\ nmut' = nmut + 1
               /\ w' = [w EXCEPT !.pc = "list"]
               /\ UNCHANGED nfail
            \/ /\ MayFail
               /\ w' = [w EXCEPT !.pc = "finish", !.err = "failed to get primary Pod"]
               /\ nfail' = nfail + 1
               /\ UNCHANGED <<labels, nmut>>
            \/ /\ MayFail
               /\ \E c \in PatchErrors :
                    w' = [w EXCEPT !.pc = "finish", !.err = "labeling as primary",
                                   !.cause = c]
               /\ nmut' = nmut + 1
               /\ nfail' = nfail + 1
               /\ UNCHANGED labels
    /\ UNCHANGED <<store, wq, waiting, numRequeues, enqueuer, run, pre, prev, enq,
                   passes, early>>

\* lines 152-156: the Pods of the cluster not labeled primary are listed
ListNonPrimary ==
    /\ w.pc = "list"
    /\ \/ /\ w' = [w EXCEPT !.pc = "pods", !.pods = ListNonPrimaries]
          /\ UNCHANGED nfail
       \/ /\ MayFail
          /\ w' = [w EXCEPT !.pc = "finish",
                            !.err = "failed to list non-primary Cluster pods"]
          /\ nfail' = nfail + 1
    /\ UNCHANGED <<labels, store, wq, waiting, numRequeues, enqueuer, run, pre,
                   nmut, prev, enq, passes, early>>

OtherRole_NoSecondary(status, pod) ==
    IF ~inCluster(status, PodAddress(pod.Name))
    THEN IF HasRoleSelector(LocalClusterName, pod.Labels) THEN "" ELSE "keep"
    ELSE "keep"

OtherRole_AlwaysRelabel(status, pod) ==
    IF ~inCluster(status, PodAddress(pod.Name))
    THEN IF HasRoleSelector(LocalClusterName, pod.Labels) THEN "" ELSE "keep"
    ELSE IF pod.Name # LocalName THEN MySQLClusterRoleSecondary ELSE "keep"

OtherRole_NoClear(status, pod) ==
    IF ~inCluster(status, PodAddress(pod.Name))
    THEN "keep"
    ELSE IF /\ pod.Name # LocalName
            /\ ~SecondarySelector(LocalClusterName, pod.Labels)
         THEN MySQLClusterRoleSecondary
         ELSE "keep"

\* lines 160-175: what the second loop does with one Pod: "" for the removal
\* of the role, a role to set, or "keep" for no call at all
OtherRole(status, pod) ==
    IF ~inCluster(status, PodAddress(pod.Name))
    THEN IF HasRoleSelector(LocalClusterName, pod.Labels) THEN "" ELSE "keep"
    ELSE IF /\ pod.Name # LocalName
            /\ ~SecondarySelector(LocalClusterName, pod.Labels)
         THEN MySQLClusterRoleSecondary
         ELSE "keep"

LabelOther_ContinuesOnError ==
    /\ w.pc = "pods"
    /\ \E pod \in w.pods :
         LET role == OtherRole(w.status, pod)
         IN  IF role = "keep"
             THEN /\ w' = [w EXCEPT !.pods = @ \ {pod}]
                  /\ UNCHANGED <<labels, nmut, nfail>>
             ELSE /\ nmut' = nmut + 1
                  /\ w' = [w EXCEPT !.pods = @ \ {pod}]
                  /\ \/ /\ labels' = Relabeled(pod, role)
                        /\ UNCHANGED nfail
                     \/ /\ MayFail
                        /\ nfail' = nfail + 1
                        /\ UNCHANGED labels
    /\ UNCHANGED <<store, wq, waiting, numRequeues, enqueuer, run, pre, prev, enq,
                   passes, early>>

\* lines 159-176: one iteration of the loop over the other Pods
LabelOther ==
    /\ w.pc = "pods"
    /\ \E pod \in w.pods :
         LET role == OtherRole(w.status, pod)
         IN  IF role = "keep"
             THEN /\ w' = [w EXCEPT !.pods = @ \ {pod}]
                  /\ UNCHANGED <<labels, nmut, nfail>>
             ELSE /\ nmut' = nmut + 1
                  /\ \/ /\ labels' = Relabeled(pod, role)
                        /\ w' = [w EXCEPT !.pods = @ \ {pod}]
                        /\ UNCHANGED nfail
                     \/ /\ MayFail
                        /\ \E c \in PatchErrors :
                             w' = [w EXCEPT !.pc = "finish",
                                       !.err = IF role = "" THEN "removing label"
                                               ELSE "labeling as secondary",
                                       !.cause = c]
                        /\ nfail' = nfail + 1
                        /\ UNCHANGED labels
    /\ UNCHANGED <<store, wq, waiting, numRequeues, enqueuer, run, pre, prev, enq,
                   passes, early>>

\* line 178: return nil
SyncReturn ==
    /\ w.pc = "pods"
    /\ w.pods = {}
    /\ w' = [w EXCEPT !.pc = "finish", !.err = ""]
    /\ UNCHANGED <<labels, store, wq, waiting, numRequeues, enqueuer, run, pre,
                   nmut, prev, enq, passes, early, nfail>>

\* lines 190-199: queue.Forget after a pass without error, and the deferred
\* queue.Done
WorkerDone ==
    /\ w.pc = "finish"
    /\ numRequeues' = IF w.err = "" THEN [numRequeues EXCEPT ![w.key] = 0]
                      ELSE numRequeues
    /\ wq' = QueueDone(wq, w.key)
    /\ prev' = [key |-> w.key, status |-> w.status, ok |-> w.err = ""]
    /\ pre' = labels
    /\ nmut' = 0
    /\ w' = IF w.err = "" THEN IdleWorker("get")
            ELSE [IdleWorker("requeue") EXCEPT !.key = w.key, !.err = w.err]
    /\ UNCHANGED <<labels, store, waiting, enqueuer, run, enq, passes, early, nfail>>

WorkerRequeue_Drops ==
    /\ w.pc = "requeue"
    /\ numRequeues' = [numRequeues EXCEPT ![w.key] = @ + 1]
    /\ w' = IdleWorker("get")
    /\ UNCHANGED <<labels, store, wq, waiting, enqueuer, run, pre, nmut, prev, enq,
                   passes, early, nfail>>

\* lines 201-206: queue.AddRateLimited(obj) after a failed pass: the rate
\* limiter counts the failure and the delaying queue holds the key back
\* (AddAfter drops it when the queue is shutting down)
WorkerRequeue ==
    /\ w.pc = "requeue"
    /\ numRequeues' = [numRequeues EXCEPT ![w.key] = @ + 1]
    /\ waiting' = IF wq.shuttingDown THEN waiting ELSE waiting \cup {w.key}
    /\ w' = IdleWorker("get")
    /\ UNCHANGED <<labels, store, wq, enqueuer, run, pre, nmut, prev, enq, passes, early,
                   nfail>>

\* the delaying queue's timer fires: the key is added to the queue
DelayedAdd ==
    /\ \E k \in waiting :
         /\ waiting' = waiting \ {k}
         /\ wq' = QueueAdd(wq, k)
    /\ UNCHANGED <<labels, store, numRequeues, enqueuer, w, run, pre, nmut, prev,
                   enq, passes, early, nfail>>

(***************************************************************************)
(* Run, the context and the worker goroutine wait.Until starts.            *)
(***************************************************************************)
\* line 231: Run is called
RunStart ==
    /\ run.pc = "notstarted"
    /\ run' = [run EXCEPT !.pc = "waitsync"]
    /\ UNCHANGED <<labels, store, wq, waiting, numRequeues, enqueuer, w, pre, nmut,
                   prev, enq, passes, early, nfail>>

\* the Pod informer has synced: podListerSynced returns true from now on
InformerSynced ==
    /\ ~run.synced
    /\ run' = [run EXCEPT !.synced = TRUE]
    /\ UNCHANGED <<labels, store, wq, waiting, numRequeues, enqueuer, w, pre, nmut,
                   prev, enq, passes, early, nfail>>

\* the caller cancels the context
Cancel ==
    /\ ~run.ctxDone
    /\ run' = [run EXCEPT !.ctxDone = TRUE]
    /\ UNCHANGED <<labels, store, wq, waiting, numRequeues, enqueuer, w, pre, nmut,
                   prev, enq, passes, early, nfail>>

RunStartWorker_NoUntil ==
    /\ run.pc = "waitsync"
    /\ run.synced
    /\ run' = [run EXCEPT !.pc = "running"]
    /\ w' = IdleWorker("get")
    /\ UNCHANGED <<labels, store, wq, waiting, numRequeues, enqueuer, pre, nmut,
                   prev, enq, passes, early, nfail>>

\* lines 239-244: WaitForCacheSync returns true, the worker goroutine starts
RunStartWorker ==
    /\ run.pc = "waitsync"
    /\ run.synced
    /\ run' = [run EXCEPT !.pc = "running"]
    /\ w' = IdleWorker("until")
    /\ UNCHANGED <<labels, store, wq, waiting, numRequeues, enqueuer, pre, nmut,
                   prev, enq, passes, early, nfail>>

\* lines 239-241 and 233: WaitForCacheSync returns false on the cancelled
\* context; Run returns and the deferred queue.ShutDown runs
RunSyncCancelled ==
    /\ run.pc = "waitsync"
    /\ run.ctxDone
    /\ run' = [run EXCEPT !.pc = "returned"]
    /\ wq' = QueueShutDown(wq)
    /\ UNCHANGED <<labels, store, waiting, numRequeues, enqueuer, w, pre, nmut,
                   prev, enq, passes, early, nfail>>

RunReturn_NoShutDown ==
    /\ run.pc = "running"
    /\ run.ctxDone
    /\ run' = [run EXCEPT !.pc = "returned"]
    /\ UNCHANGED <<labels, store, wq, waiting, numRequeues, enqueuer, w, pre, nmut,
                   prev, enq, passes, early, nfail>>

\* lines 248-249 and 233: <-ctx.Done() returns; Run returns and the deferred
\* queue.ShutDown runs
RunReturn ==
    /\ run.pc = "running"
    /\ run.ctxDone
    /\ run' = [run EXCEPT !.pc = "returned"]
    /\ wq' = QueueShutDown(wq)
    /\ UNCHANGED <<labels, store, waiting, numRequeues, enqueuer, w, pre, nmut,
                   prev, enq, passes, early, nfail>>

\* line 244: wait.Until checks the stop channel, then calls runWorker
WorkerUntil ==
    /\ w.pc = "until"
    /\ w' = IF run.ctxDone THEN IdleWorker("exited") ELSE IdleWorker("get")
    /\ UNCHANGED <<labels, store, wq, waiting, numRequeues, enqueuer, run, pre,
                   nmut, prev, enq, passes, early, nfail>>

(***************************************************************************)
(* Specifications.                                                         *)
(***************************************************************************)
MemberAddresses == {PodAddress(p) : p \in Members}

\* the snapshots of the local cluster: every topology over its members
SyncInputs ==
    {ClusterStatus(LocalClusterName, t) : t \in TopologiesOver(MemberAddresses)}

\* a few snapshots of both clusters, one of them with an address on another
\* port, and an object of another type
Inputs ==
    { ClusterStatus(LocalClusterName,
                    (PodAddress("A") :> InstanceStatusOnline)
                    @@ (PodAddress("B") :> InstanceStatusOnline)),
      ClusterStatus(LocalClusterName,
                    (PodAddress("A") :> InstanceStatusOnline)
                    @@ (<<"B", OtherPort>> :> InstanceStatusOnline)
                    @@ (PodAddress("C") :> InstanceStatusMissing)),
      ClusterStatus(OtherClusterName,
                    (PodAddress("D") :> InstanceStatusOnline)
                    @@ (PodAddress("C") :> InstanceStatusOnline)),
      NotAStatus }

Worker ==
    \/ WorkerGet
    \/ WorkerGetShutdown
    \/ SyncStart
    \/ RelabelPrimary
    \/ LabelLocalPrimary
    \/ ListNonPrimary
    \/ LabelOther
    \/ SyncReturn
    \/ WorkerDone
    \/ WorkerRequeue
    \/ WorkerUntil

Next ==
    \/ \E obj \in Inputs : EnqueueClusterStatus(obj)
    \/ EnqueueAdd
    \/ DelayedAdd
    \/ RunStart
    \/ InformerSynced
    \/ Cancel
    \/ RunStartWorker
    \/ RunSyncCancelled
    \/ RunReturn
    \/ Worker

Spec == Init /\ [][Next]_vars

\* the controller is running: the informer has synced and the worker waits
\* for its first key
InitSync ==
    /\ labels \in Labelings
    /\ w = IdleWorker("get")
    /\ run = [pc |-> "running", ctxDone |-> FALSE, synced |-> TRUE]
    /\ InitCommon

\* the worker has nothing to do: it waits in queue.Get and no key is on its way
Quiescent ==
    /\ w.pc = "get"
    /\ wq.queue = <<>> /\ wq.dirty = {} /\ wq.processing = {}
    /\ waiting = {}
    /\ enqueuer.pc = "idle"

\* passes in succession: a snapshot arrives only while the worker is idle
NextSync ==
    \/ \E obj \in SyncInputs : Quiescent /\ EnqueueClusterStatus(obj)
    \/ EnqueueAdd
    \/ DelayedAdd
    \/ WorkerGet
    \/ SyncStart
    \/ RelabelPrimary
    \/ LabelLocalPrimary
    \/ ListNonPrimary
    \/ LabelOther
    \/ SyncReturn
    \/ WorkerDone
    \/ WorkerRequeue

SpecSync == InitSync /\ [][NextSync]_vars

\* the controller is running and is not cancelled; snapshots arrive at any
\* time
InitLive ==
    /\ labels \in SomeLabelings
    /\ w = IdleWorker("get")
    /\ run = [pc |-> "running", ctxDone |-> FALSE, synced |-> TRUE]
    /\ InitCommon

\* the steps of the worker goroutine inside runWorker
WorkerStep ==
    \/ WorkerGet
    \/ SyncStart
    \/ RelabelPrimary
    \/ LabelLocalPrimary
    \/ ListNonPrimary
    \/ LabelOther
    \/ SyncReturn
    \/ WorkerDone
    \/ WorkerRequeue

\* one snapshot of each cluster
LiveInputs ==
    { ClusterStatus(LocalClusterName,
                    (PodAddress("A") :> InstanceStatusOnline)
                    @@ (PodAddress("B") :> InstanceStatusOnline)),
      ClusterStatus(OtherClusterName,
                    (PodAddress("D") :> InstanceStatusOnline)
                    @@ (PodAddress("C") :> InstanceStatusOnline)) }

NextLive ==
    \/ \E obj \in LiveInputs : EnqueueClusterStatus(obj)
    \/ EnqueueAdd
    \/ DelayedAdd
    \/ WorkerStep

\* the worker goroutine and the caller of EnqueueClusterStatus keep running,
\* and the timer of the delaying queue fires
SpecLive ==
    /\ InitLive /\ [][NextLive]_vars
    /\ WF_vars(WorkerStep) /\ WF_vars(DelayedAdd) /\ WF_vars(EnqueueAdd)

(***************************************************************************)
(* Vocabulary of the properties.                                           *)
(***************************************************************************)
\* the address of member p is in the topology of the snapshot with status ONLINE
Online(status, p) ==
    /\ <<p, LocalPort>> \in DOMAIN status.Topology
    /\ status.Topology[<<p, LocalPort>>] = "ONLINE"

RoleIn(l, p) == IF LabelMySQLClusterRole \in DOMAIN l[p] THEN l[p][LabelMySQLClusterRole] ELSE ""

\* syncHandler has returned nil after reconciling a snapshot; its effects and
\* its locals are still in place
PassSucceeded == w.pc = "finish" /\ w.err = "" /\ w.status # NoStatus

PrimaryLabeled == {p \in Members : RoleOf(p) = "primary"}

\* C1: after a successful pass on a snapshot in which the local instance is
\* ONLINE, exactly one member of the cluster is labeled primary, and it is the
\* local instance, whatever the labels were before
C1_Convergence ==
    (PassSucceeded /\ Online(w.status, LocalName)) => PrimaryLabeled = {LocalName}

\* a pass that found another member labeled primary and the local one not
C1_Witness ==
    /\ PassSucceeded /\ Online(w.status, LocalName)
    /\ RoleIn(pre, LocalName) # "primary"
    /\ \E p \in Members \ {LocalName} : RoleIn(pre, p) = "primary"
    /\ PrimaryLabeled = {LocalName}

C3_OnlineSecondary ==
    PassSucceeded =>
        \A p \in Members \ {LocalName} :
            Online(w.status, p) => RoleOf(p) = "secondary"

\* the scenario of the design: topology {A: ONLINE, B: ONLINE}, labels
\* {B: primary, C: secondary} before, {A: primary, B: secondary} after
C3_Witness ==
    /\ PassSucceeded
    /\ DOMAIN w.status.Topology = {PodAddress("A"), PodAddress("B")}
    /\ Online(w.status, "A") /\ Online(w.status, "B")
    /\ RoleIn(pre, "A") = NoRole /\ RoleIn(pre, "B") = "primary"
    /\ RoleIn(pre, "C") = "secondary"
    /\ RoleOf("A") = "primary" /\ RoleOf("B") = "secondary" /\ RoleOf("C") = NoRole

Required(status, p) == IF Online(status, p) THEN "secondary" ELSE NoRole

GetPrimaryFailed == w.err = "failed to get primary Pod"

\* C8: when the local instance's Pod cannot be fetched (line 141) the pass
\* returns an error with every other member carrying the label it had before
\* the pass or the label the snapshot requires for it, and the local Pod
\* untouched; the worker then calls Done and AddRateLimited for the key
C8_LocalPrimaryMissing ==
    /\ []((w.pc = "finish" /\ GetPrimaryFailed) =>
            /\ \A p \in Members \ {LocalName} :
                 \/ RoleOf(p) = RoleIn(pre, p)
                 \/ RoleOf(p) = Required(w.status, p)
            /\ labels[LocalName] = pre[LocalName])
    /\ [][(w.pc = "finish" /\ GetPrimaryFailed /\ w' # w) =>
            /\ w'.pc = "requeue" /\ w'.key = w.key /\ GetPrimaryFailed'
            /\ w.key \notin wq'.processing]_vars
    /\ [][(w.pc = "requeue" /\ GetPrimaryFailed /\ w' # w) =>
            /\ w.key \in waiting' \/ wq.shuttingDown
            /\ numRequeues'[w.key] = numRequeues[w.key] + 1]_vars

\* the fetch failed after the first loop had relabeled a member
C8_Witness ==
    /\ w.pc = "finish" /\ GetPrimaryFailed
    /\ \E p, q \in Members \ {LocalName} :
         /\ RoleIn(pre, p) = "primary" /\ RoleOf(p) = "secondary"
         /\ RoleIn(pre, q) = "primary" /\ RoleOf(q) = NoRole

\* C10: every step that changes labels changes those of one Pod, and of them
\* only the role key; the role key is absent or holds "primary" or
\* "secondary" in every reachable state
C10_RoleKeyOnly ==
    /\ [](\A p \in Pods :
            LabelMySQLClusterRole \in DOMAIN labels[p]
            => labels[p][LabelMySQLClusterRole] \in {"primary", "secondary"})
    /\ [][labels' # labels =>
            \E p \in Pods :
                /\ \A q \in Pods \ {p} : labels'[q] = labels[q]
                /\ DOMAIN labels'[p] \ {LabelMySQLClusterRole}
                     = DOMAIN labels[p] \ {LabelMySQLClusterRole}
                /\ \A k \in DOMAIN labels[p] \ {LabelMySQLClusterRole} :
                     labels'[p][k] = labels[p][k]]_vars

\* a pass that removed the role key of one member and set that of another
C10_Witness ==
    /\ w.pc = "finish"
    /\ \E p, q \in Members :
         /\ RoleIn(pre, p) = "secondary"
         /\ LabelMySQLClusterRole \notin DOMAIN labels[p]
         /\ MySQLClusterLabel \in DOMAIN labels[p]
         /\ RoleIn(pre, q) = NoRole /\ RoleOf(q) = "secondary"

(***************************************************************************)
(* Properties of the queue and the store, under Spec.                      *)
(***************************************************************************)
Queued == {wq.queue[i] : i \in 1..Len(wq.queue)}

\* the worker holds a key it got from the queue and has not called Done for
InFlight == w.pc \in {"sync", "primaries", "list", "pods", "finish"}

\* C6 as stated: two enqueues of a key, both made before its first pass has
\* finished, lead to at most two passes for it, retries included
C6_Original ==
    \A k \in Keys : (enq[k] = 2 /\ early[k] = 2) => passes[k] <= 2

\* C6 amended: two enqueues of a key made before its first pass has finished
\* lead to at most two passes and one more for every failed pass; once the
\* queue holds nothing for an enqueued key (and was not shut down) at least
\* one pass for it has started; and the key in flight is the worker's key,
\* is in the processing set and is not in the queue
C6_EnqueuedTwice ==
    /\ \A k \in Keys : (enq[k] = 2 /\ early[k] = 2) => passes[k] <= 2 + nfail
    /\ \A k \in Keys :
         (/\ enq[k] >= 1 /\ enqueuer.pc = "idle" /\ ~wq.shuttingDown
          /\ k \notin Queued /\ k \notin wq.processing)
         => passes[k] >= 1
    /\ wq.processing = IF InFlight THEN {w.key} ELSE {}
    /\ Queued \cap wq.processing = {}
    /\ Len(wq.queue) = Cardinality(Queued)

\* both enqueues came before the worker took the key: one pass served both
C6_Witness ==
    /\ Quiescent /\ nfail = 0
    /\ enq[LocalClusterName] = 2 /\ early[LocalClusterName] = 2
    /\ passes[LocalClusterName] = 1
    /\ prev.key = LocalClusterName /\ prev.ok
    /\ prev.status = store[LocalClusterName]

\* the labels the members carry are those the snapshot leads to
Corresponds(status) ==
    \A p \in Members :
        RoleOf(p) = IF p = LocalName THEN "primary" ELSE Required(status, p)

\* nothing is pending for any key and the queue was not shut down
Settled ==
    /\ wq.queue = <<>> /\ wq.dirty = {} /\ wq.processing = {}
    /\ waiting = {}
    /\ enqueuer.pc = "idle"
    /\ ~wq.shuttingDown

C9_InvalidInputRejected ==
    /\ [](\A k \in DOMAIN store :
            store[k].type = "*innodb.ClusterStatus" /\ store[k].ClusterName = k)
    /\ [][(/\ enqueuer' # enqueuer /\ enqueuer'.obj # NoStatus
           /\ enqueuer'.obj.type # "*innodb.ClusterStatus") =>
            /\ enqueuer'.err /\ enqueuer'.pc = "idle"
            /\ UNCHANGED <<store, wq, waiting>>]_vars

\* the rejected call came while a snapshot was stored and its key queued
C9_Witness ==
    /\ enqueuer.obj = NotAStatus /\ enqueuer.err /\ enqueuer.pc = "idle"
    /\ DOMAIN store # {} /\ wq.queue # <<>>

(***************************************************************************)
(* Properties of Run and of the shutdown.                                  *)
(***************************************************************************)
\* the worker goroutine runs no pass and is not about to take a key
WorkerAtRest ==
    /\ ~InFlight
    /\ ~(w.pc \in {"get", "requeue"} /\ wq.queue # <<>>)

\* C11: once Run has returned the queue has been shut down, no syncHandler
\* pass is in flight and the worker is not about to start another
C11_Original ==
    run.pc = "returned" => (wq.shuttingDown /\ WorkerAtRest)

\* C11 amended: Run returns only after the context was cancelled, and when it
\* returns the queue has been shut down: from then on no key enters the
\* queue's dirty set or the delaying queue, and the queue only grows by a key
\* that was marked dirty while in flight.  A pass in flight is not waited
\* for, and the worker still takes the keys that are queued.
C11_ReturnsAfterShutDown ==
    /\ [](run.pc = "returned" => (run.ctxDone /\ wq.shuttingDown))
    /\ [][wq.shuttingDown =>
            /\ wq'.shuttingDown
            /\ wq'.dirty \subseteq wq.dirty
            /\ waiting' \subseteq waiting
            /\ Len(wq'.queue) <= Len(wq.queue) + 1
            /\ \A i \in 1..Len(wq'.queue) : wq'.queue[i] \in Queued \cup wq.dirty]_vars

\* Run has returned while a pass is in flight and another key is queued
C11_Witness ==
    /\ run.pc = "returned"
    /\ w.pc \in {"primaries", "list", "pods"}
    /\ wq.queue # <<>>

\* runWorker has never been called: no key was ever taken from the queue
RunWorkerNeverCalled ==
    /\ w.pc \in {"notstarted", "until", "exited"}
    /\ \A k \in AllKeys : passes[k] = 0
    /\ wq.processing = {}

\* C17: while Run has not got past WaitForCacheSync no worker exists; when
\* the wait ends on the cancelled context Run returns with the queue shut
\* down and without a worker goroutine, and none is started later; and a
\* cancellation that came before runWorker was first called (the cache may
\* sync just as the context is cancelled, and wait.Until is then started on a
\* closed stop channel) leaves runWorker uncalled for ever: no key is taken
\* from the queue and no pass runs
C17_CancelledWhileWaiting ==
    /\ [](run.pc \in {"notstarted", "waitsync"} =>
            (w.pc = "notstarted" /\ RunWorkerNeverCalled /\ ~wq.shuttingDown))
    /\ [][(run.pc = "waitsync" /\ run'.pc = "returned") =>
            (run.ctxDone /\ w'.pc = "notstarted" /\ wq'.shuttingDown)]_vars
    /\ [][(run.pc = "returned" /\ w.pc = "notstarted") =>
            (w'.pc = "notstarted" /\ wq'.shuttingDown /\ labels' = labels)]_vars
    /\ [][(run.ctxDone /\ RunWorkerNeverCalled) => RunWorkerNeverCalled']_vars

\* Run was cancelled before the cache had synced and has returned: a key is
\* queued, the queue is shut down and there is no worker
C17_Witness ==
    /\ run.pc = "returned" /\ ~run.synced
    /\ w.pc = "notstarted"
    /\ wq.shuttingDown /\ wq.queue # <<>>
    /\ \A k \in AllKeys : passes[k] = 0

(***************************************************************************)
(* Properties of a pass, its mutations and its failures.                   *)
(***************************************************************************)
\* the role label the snapshot leads to for member p
Target(status, p) ==
    IF p = LocalName THEN MySQLClusterRolePrimary ELSE Required(status, p)

MutationFails == nfail' = nfail + 1 /\ nmut' = nmut + 1

MutationFailed ==
    w.err \in {"relabeling primary", "labeling as primary", "removing label",
               "labeling as secondary"}

\* C13: the step in which a call of updateClusterRoleLabel fails ends the
\* pass with an error and changes no label; from then on the worker changes
\* no label, calls Done and then AddRateLimited for the key: the labels the
\* pass had changed before stay as they are and the key waits for its retry
C13_MutationFailureAborts ==
    /\ [][MutationFails =>
            /\ w'.pc = "finish" /\ w'.key = w.key /\ MutationFailed'
            /\ labels' = labels]_vars
    /\ [][(w.pc = "finish" /\ MutationFailed /\ w' # w) =>
            /\ w'.pc = "requeue" /\ w'.key = w.key
            /\ w.key \notin wq'.processing
            /\ labels' = labels]_vars
    /\ [][(w.pc = "requeue" /\ w' # w) =>
            /\ w.key \in waiting'
            /\ numRequeues'[w.key] = numRequeues[w.key] + 1
            /\ labels' = labels]_vars

\* a pass that had relabeled one member when the next mutation failed
C13_Witness ==
    /\ w.pc = "finish" /\ MutationFailed
    /\ nmut = 2
    /\ \E p \in Members : labels[p] # pre[p]

\* C14 as stated: a pass does not end with an error because PatchPod found
\* the Pod gone
C14_Original ==
    ~(w.pc = "finish" /\ w.err # "" /\ w.cause = "NotFound")

\* C14 amended: a call of updateClusterRoleLabel that fails because the Pod
\* is gone is handled as every other failure of it: the step ends the pass
\* with an error, whatever the cause, with the Pods not yet visited left
\* alone, and the worker goes on to Done and AddRateLimited for the key
C14_NotFoundAborts ==
    /\ [](w.cause # "" => (w.pc = "finish" /\ MutationFailed))
    /\ [][MutationFails =>
            /\ w'.cause \in PatchErrors
            /\ w'.pc = "finish" /\ w'.err # ""
            /\ w'.primaries = w.primaries /\ w'.pods = w.pods
            /\ labels' = labels]_vars
    /\ [][(w.pc = "finish" /\ w.cause = "NotFound" /\ w' # w) =>
            (w'.pc = "requeue" /\ w'.key = w.key /\ labels' = labels)]_vars

\* the Pod of the first of two stale primaries was gone: the pass ended with
\* the second one still to visit
C14_Witness ==
    /\ w.pc = "finish" /\ w.cause = "NotFound"
    /\ w.err = "relabeling primary"
    /\ Cardinality(w.primaries) = 2
    /\ \E pod \in w.primaries : pod.Name # LocalName /\ RoleOf(pod.Name) = "primary"

(***************************************************************************)
(* The store and the queue.                                                *)
(***************************************************************************)
\* the keys the queue, the delaying queue or the worker hold
Pending ==
    Queued \cup wq.dirty \cup wq.processing \cup waiting
    \cup (IF InFlight \/ w.pc = "requeue" THEN {w.key} ELSE {})

\* C16: every key that is queued, marked dirty, held back for a retry or in
\* flight has a snapshot in the store; between store.Add and queue.Add the
\* snapshot of the call is the one stored; and the worker that starts a pass
\* for a key reads a snapshot for it
C16_SnapshotBeforeKey ==
    /\ [](\A k \in Pending : k \in DOMAIN store)
    /\ [](enqueuer.pc = "add" =>
            /\ enqueuer.key \in DOMAIN store
            /\ store[enqueuer.key] = enqueuer.obj)
    /\ [][(w.pc = "sync" /\ w' # w) =>
            /\ w.key \in DOMAIN store
            /\ w'.status = store[w.key]
            /\ w'.status.type = "*innodb.ClusterStatus"]_vars

\* the worker has taken a key from the queue while a call of
\* EnqueueClusterStatus for the same key stands between store.Add and queue.Add
C16_Witness ==
    /\ w.pc = "sync"
    /\ enqueuer.pc = "add" /\ enqueuer.key = w.key
    /\ enq[w.key] = 2
    /\ store[w.key] = enqueuer.obj

(***************************************************************************)
(* The worker boundary, under SpecLive.                                    *)
(***************************************************************************)
\* C18: after a pass without error the worker calls Forget and Done and is
\* back in queue.Get, and the key is queued again only if an Add marked it
\* dirty meanwhile; after a pass with an error it calls Done, then
\* AddRateLimited for the same key, and is back in queue.Get; and a key
\* handed to AddRateLimited is taken up by a pass again
C18_WorkerBoundary ==
    /\ [][(w.pc = "finish" /\ w.err = "" /\ w' # w) =>
            /\ w'.pc = "get"
            /\ numRequeues'[w.key] = 0
            /\ w.key \notin wq'.processing
            /\ waiting' = waiting
            /\ wq'.queue = IF w.key \in wq.dirty THEN Append(wq.queue, w.key)
                           ELSE wq.queue]_vars
    /\ [][(w.pc = "finish" /\ w.err # "" /\ w' # w) =>
            /\ w'.pc = "requeue" /\ w'.key = w.key
            /\ w.key \notin wq'.processing
            /\ numRequeues' = numRequeues]_vars
    /\ [][(w.pc = "requeue" /\ w' # w) =>
            /\ w'.pc = "get"
            /\ w.key \in waiting'
            /\ numRequeues'[w.key] = numRequeues[w.key] + 1]_vars
    /\ \A k \in Keys :
         (w.pc = "requeue" /\ w.key = k) ~> (w.pc = "sync" /\ w.key = k)

\* the worker has taken up again the key whose pass had failed
C18_Witness ==
    /\ w.pc = "sync"
    /\ prev.key = w.key /\ ~prev.ok
    /\ numRequeues[w.key] = 1
    /\ passes[w.key] = 1
    /\ waiting = {}

(***************************************************************************)
(* The Pods a pass reads and writes.                                       *)
(***************************************************************************)
\* the Pods the pass in flight has listed and not yet visited
Listed == {pod.Name : pod \in w.primaries \cup w.pods}

\* C19 as stated: a pass for key K lists only Pods of cluster K and leaves
\* the labels of the Pods of every other cluster as they were
C19_Original ==
    InFlight =>
        /\ \A p \in Listed : PodCluster(p) = w.key
        /\ \A p \in Pods : PodCluster(p) # w.key => labels[p] = pre[p]

\* C19 amended: a pass lists and relabels Pods of the local instance's
\* cluster and namespace only, whatever its key is; the Pods of another
\* cluster are never listed and their labels never change
C19_LocalClusterOnly ==
    /\ [](\A p \in Listed :
            PodCluster(p) = LocalClusterName /\ PodNamespace(p) = LocalNamespace)
    /\ [][\A p \in Pods :
            labels'[p] # labels[p] => PodCluster(p) = LocalClusterName]_vars

\* a pass for the key of the other cluster has relabeled the members of the
\* local cluster from the other cluster's snapshot
C19_Witness ==
    /\ w.pc = "finish" /\ w.err = ""
    /\ w.key = OtherClusterName /\ w.status.ClusterName = OtherClusterName
    /\ RoleIn(pre, "C") # "secondary" /\ RoleOf("C") = "secondary"
    /\ RoleIn(pre, "B") # NoRole /\ RoleOf("B") = NoRole
    /\ labels["D"] = pre["D"]

\* the members labeled primary when the pass started (or now, between passes)
PrimaryBefore == {p \in Members : RoleIn(pre, p) = "primary"}

\* C20: the step that labels the local instance primary comes when every
\* Pod the query for primaries returned has been visited, and leaves no other
\* member labeled primary; and when at most one member was labeled primary
\* at the start of a pass, at most one is in every state of the pass,
\* including the states a failed pass ends in
C20_PrimaryAfterDemotion ==
    /\ [][(RoleIn(labels, LocalName) # "primary"
           /\ RoleIn(labels', LocalName) = "primary") =>
            /\ w.primaries = {}
            /\ \A p \in Members \ {LocalName} : RoleIn(labels', p) # "primary"]_vars
    /\ [](Cardinality(PrimaryBefore) <= 1 => Cardinality(PrimaryLabeled) <= 1)

\* a pass that started with B as the only primary has demoted B and labeled
\* the local instance, and failed after that
C20_Witness ==
    /\ w.pc = "finish"
    /\ w.err = "failed to list non-primary Cluster pods"
    /\ PrimaryBefore = {"B"}
    /\ PrimaryLabeled = {LocalName}
    /\ RoleOf("B") = "secondary"

====
